---- MODULE Spec2Model ----
(***************************************************************************)
(* The kernel-sweep helpers of the image-filtering notebook: iter_kernel,  *)
(* iter_pixels and bounded_slice, the generator objects they create, and   *)
(* the arrays (the caller's image, the masks, the window views) they hand  *)
(* to the caller.                                                          *)
(*                                                                         *)
(* A 2-D array is a function from row index to a function from column      *)
(* index to a cell, both 0-based as in numpy.  heap is the memory the      *)
(* arrays live in, a function from buffer names to arrays: ImageBuf is the *)
(* caller's image, <<g, k>> the k-th array allocated by generator g.  A    *)
(* window is a view: a buffer and the row and column ranges it shows.      *)
(***************************************************************************)
EXTENDS Integers, Sequences, FiniteSets, TLC

\* Largest image height and width explored (0 is explored too).
MaxDim == 3
\* Largest half-width `size` explored.
MaxSize == 2
\* Sizes down to -MaxNeg are explored.
MaxNeg == 1
\* Largest number of iter_kernel calls (generator objects) on one image.
MaxRuns == 2

VARIABLES
    shape,    \* image.shape[:2], <<height, width>>
    size,     \* the size argument of iter_kernel
    heap,     \* the arrays, by buffer name
    gens,     \* the generator objects, one frame per iter_kernel call
    out,      \* out[g]: the triples generator g has yielded, in order
    wr,       \* the caller's overwrite of a yielded array, if any
    image0,   \* the image as it was before the first call
    cache,    \* image_cache of mean_filter_demo: the frames, by step index
    req,      \* the last mean_filter_step request and how it ended
    show      \* a call of imshow_all: its arguments and what it drew

vars == <<shape, size, heap, gens, out, wr, image0, cache, req, show>>

ImageBuf == <<0, 0>>

\* The name of the next array generator g allocates.
NewBuf(hp, g) == <<g, Cardinality({b \in DOMAIN hp : b[1] = g}) + 1>>

----------------------------------------------------------------------------
(* Python and numpy primitives *)

PyMax(a, b) == IF a >= b THEN a ELSE b

PyMin(a, b) == IF a <= b THEN a ELSE b

MaxOf(S) == CHOOSE m \in S : \A x \in S : x <= m

\* An array held in memory: a itself, its cells computed once and stored
\* rather than recomputed at every read.
Stored(a) == IF a = a THEN a ELSE a

\* np.zeros(shape)
Zeros(shp) == [r \in 0..(shp[1] - 1) |-> [c \in 0..(shp[2] - 1) |-> 0]]

\* slice(start, stop).indices(n): a negative bound counts from the end, and
\* both are clipped to 0..n; a stop before the start selects nothing.
SliceIndices(sl, n) ==
    LET clip(x) == IF x < 0 THEN PyMax(x + n, 0) ELSE PyMin(x, n)
        start == clip(sl[1])
        stop == clip(sl[2])
    IN  <<start, PyMax(start, stop)>>

\* The cells a view shows, read through to its buffer.
ViewData(hp, v) ==
    [r \in 0..(v.rows[2] - v.rows[1] - 1) |->
        [c \in 0..(v.cols[2] - v.cols[1] - 1) |->
            hp[v.buf][v.rows[1] + r][v.cols[1] + c]]]

ViewShape(v) == <<v.rows[2] - v.rows[1], v.cols[2] - v.cols[1]>>

----------------------------------------------------------------------------
(* scipy.ndimage.grey_dilation(mask, size=width), mode='reflect' *)

\* The 'reflect' extension of an axis of length n: (d c b a | a b c d | d c b a).
Reflect(p, n) ==
    LET q == p % (2 * n)
    IN  IF q < n THEN q ELSE 2 * n - 1 - q

\* maximum_filter1d along one axis, origin 0: the maximum over the sz cells
\* centred on each cell, the axis extended by reflection.
MaximumFilter1d(a, shp, sz, axis) ==
    LET lo == 0 - (sz \div 2)
        hi == sz - (sz \div 2) - 1
    IN  [r \in 0..(shp[1] - 1) |-> [c \in 0..(shp[2] - 1) |->
            MaxOf({ IF axis = 0
                      THEN a[Reflect(r + k, shp[1])][c]
                      ELSE a[r][Reflect(c + k, shp[2])] : k \in lo..hi })]]

\* As MaximumFilter1d, the axis extended by wrapping around (mode='wrap').
MaximumFilter1dWrap(a, shp, sz, axis) ==
    LET lo == 0 - (sz \div 2)
        hi == sz - (sz \div 2) - 1
    IN  [r \in 0..(shp[1] - 1) |-> [c \in 0..(shp[2] - 1) |->
            MaxOf({ IF axis = 0
                      THEN a[(r + k) % shp[1]][c]
                      ELSE a[r][(c + k) % shp[2]] : k \in lo..hi })]]

\* A dilation whose boundary handling wraps around the array edges.
GreyDilationWrap(a, shp, width) ==
    IF width > 1
      THEN MaximumFilter1dWrap(MaximumFilter1dWrap(a, shp, width, 0), shp, width, 1)
      ELSE a

\* A dilation along the rows axis only (size=(width, 1)).
GreyDilationRows(a, shp, width) ==
    IF width > 1
      THEN MaximumFilter1d(a, shp, width, 0)
      ELSE a

\* A dilation by a cross (the default structuring element) instead of a
\* square: the larger of the two 1-D filters of the input, cell by cell.
GreyDilationCross(a, shp, width) ==
    IF width > 1
      THEN LET rows == Stored(MaximumFilter1d(a, shp, width, 0))
               cols == Stored(MaximumFilter1d(a, shp, width, 1))
           IN  [r \in 0..(shp[1] - 1) |-> [c \in 0..(shp[2] - 1) |->
                   PyMax(rows[r][c], cols[r][c])]]
      ELSE a

\* A flat square footprint is separable: one 1-D maximum filter per axis, and
\* only along the axes whose size exceeds 1; with none, the input is copied.
GreyDilation(a, shp, width) ==
    IF width > 1
      THEN MaximumFilter1d(Stored(MaximumFilter1d(a, shp, width, 0)), shp, width, 1)
      ELSE a

----------------------------------------------------------------------------
(* bounded_slice, iter_pixels, iter_kernel *)

\* A bounded_slice whose stop leaves out the last row and column.
bounded_slice_short(center, xy_max, sz, i_min) ==
    [k \in 1..2 |-> <<PyMax(center[k] - sz, i_min),
                      PyMin(center[k] + sz, xy_max[k])>>]

\* A bounded_slice whose start is not held at i_min: at a border it is
\* negative, which a slice counts from the end.
bounded_slice_unclamped(center, xy_max, sz, i_min) ==
    [k \in 1..2 |-> <<center[k] - sz,
                      PyMin(center[k] + sz + 1, xy_max[k])>>]

\* One slice(start, stop) per axis.
bounded_slice(center, xy_max, sz, i_min) ==
    [k \in 1..2 |-> <<PyMax(center[k] - sz, i_min),
                      PyMin(center[k] + sz + 1, xy_max[k])>>]

Done == [pc |-> "done", i |-> 0, j |-> 0]

\* An iter_pixels with its loops nested the other way round (column-major).
iter_pixels_colmajor(fr, shp) ==
    CASE fr.pc = "start" ->
            IF shp[1] > 0 /\ shp[2] > 0
              THEN [pc |-> "yield", i |-> 0, j |-> 0]
              ELSE Done
      [] fr.pc = "yield" ->
            IF fr.i + 1 < shp[1]
              THEN [pc |-> "yield", i |-> fr.i + 1, j |-> fr.j]
              ELSE IF fr.j + 1 < shp[2]
                     THEN [pc |-> "yield", i |-> 0, j |-> fr.j + 1]
                     ELSE Done
      [] OTHER -> Done

\* An iter_pixels that starts over when resumed after its end, as a list
\* iterated again would.
iter_pixels_restart(fr, shp) ==
    CASE fr.pc = "yield" ->
            IF fr.j + 1 < shp[2]
              THEN [pc |-> "yield", i |-> fr.i, j |-> fr.j + 1]
              ELSE IF fr.i + 1 < shp[1]
                     THEN [pc |-> "yield", i |-> fr.i + 1, j |-> 0]
                     ELSE Done
      [] OTHER ->
            IF shp[1] > 0 /\ shp[2] > 0
              THEN [pc |-> "yield", i |-> 0, j |-> 0]
              ELSE Done

\* Resuming iter_pixels: its frame after the next yield, or Done when the two
\* loops have run out.
iter_pixels(fr, shp) ==
    CASE fr.pc = "start" ->
            IF shp[1] > 0 /\ shp[2] > 0
              THEN [pc |-> "yield", i |-> 0, j |-> 0]
              ELSE Done
      [] fr.pc = "yield" ->
            IF fr.j + 1 < shp[2]
              THEN [pc |-> "yield", i |-> fr.i, j |-> fr.j + 1]
              ELSE IF fr.i + 1 < shp[1]
                     THEN [pc |-> "yield", i |-> fr.i + 1, j |-> 0]
                     ELSE Done
      [] OTHER -> Done

\* A mask that takes size as the count of cells on each side including the
\* centre (width 2*size + 3): one cell wider all round.
KernelMaskWide(shp, sz, i, j) ==
    LET width == 2 * sz + 3
        marked == Stored([Zeros(shp) EXCEPT ![i][j] = 1])
        dilated == Stored(GreyDilation(marked, shp, width))
    IN  [dilated EXCEPT ![i][j] = 2]

\* The mask of one step: zeros, the centre marked, dilated, the centre set to 2.
KernelMask(shp, sz, i, j) ==
    LET width == 2 * sz + 1
        marked == Stored([Zeros(shp) EXCEPT ![i][j] = 1])
        dilated == Stored(GreyDilation(marked, shp, width))
    IN  [dilated EXCEPT ![i][j] = 2]

\* image[bounded_slice(...)]: basic slicing, so a view of the image's buffer.
Subimage(shp, sz, i, j) ==
    LET sl == bounded_slice(<<i, j>>, shp, sz, 0)
    IN  [buf |-> ImageBuf,
         rows |-> SliceIndices(sl[1], shp[1]),
         cols |-> SliceIndices(sl[2], shp[2])]

\* A loop body that builds the mask in the image's own array (mask = image)
\* instead of a new one.
KernelStepInPlace(hp, g, shp, sz, i, j) ==
    [heap |-> [hp EXCEPT ![ImageBuf] = KernelMask(shp, sz, i, j)],
     triple |-> [pos |-> <<i, j>>,
                 mask |-> ImageBuf,
                 window |-> Subimage(shp, sz, i, j)]]

\* A loop body that keeps one mask array per generator and overwrites it at
\* every step.
KernelStepReuse(hp, g, shp, sz, i, j) ==
    [heap |-> [b \in DOMAIN hp \cup {<<g, 1>>} |->
                  IF b = <<g, 1>> THEN KernelMask(shp, sz, i, j) ELSE hp[b]],
     triple |-> [pos |-> <<i, j>>,
                 mask |-> <<g, 1>>,
                 window |-> Subimage(shp, sz, i, j)]]

\* A loop body that yields a copy of the window (image[...].copy()): a second
\* new array holding the window's cells.
KernelStepCopy(hp, g, shp, sz, i, j) ==
    LET mb == NewBuf(hp, g)
        wb == <<g, mb[2] + 1>>
        v == Subimage(shp, sz, i, j)
    IN  [heap |-> hp @@ (mb :> KernelMask(shp, sz, i, j)) @@ (wb :> ViewData(hp, v)),
         triple |-> [pos |-> <<i, j>>,
                     mask |-> mb,
                     window |-> [buf |-> wb,
                                 rows |-> <<0, ViewShape(v)[1]>>,
                                 cols |-> <<0, ViewShape(v)[2]>>]]]

\* The body of iter_kernel's loop for pixel (i, j): the heap after it and the
\* triple it yields.  The mask is a newly allocated array.
KernelStep(hp, g, shp, sz, i, j) ==
    [heap |-> hp @@ (NewBuf(hp, g) :> KernelMask(shp, sz, i, j)),
     triple |-> [pos |-> <<i, j>>,
                 mask |-> NewBuf(hp, g),
                 window |-> Subimage(shp, sz, i, j)]]

\* One iteration state shared by all generator objects (a module-level
\* iterator): every generator resumes from the newest frame.
FrameShared(g) == gens[Len(gens)]

\* The frame generator g resumes from.
Frame(g) == gens[g]

----------------------------------------------------------------------------
(* Inputs *)

\* Cell values all different: 1, 2, 3, ... in row-major order.
Ramp(shp) == [r \in 0..(shp[1] - 1) |-> [c \in 0..(shp[2] - 1) |-> r * shp[2] + c + 1]]

Images(shp) == {Ramp(shp)}

Sizes == (0 - MaxNeg)..MaxSize

\* The value the caller writes: none an image cell or a mask cell holds.
Poke == 0 - 1

NoWrite == [kind |-> "none", g |-> 0, k |-> 0, r |-> 0, c |-> 0, n |-> 0]

\* No mean_filter_step request made yet.
\* shown: the step whose frame was shown; maxk: the largest
\* step requested with success so far; failed: whether a request ended in an
\* exception; inrange: whether every request so far was for a step of the image.
NoReq == [k |-> 0, status |-> "none", shown |-> 0, maxk |-> 0 - 1,
          failed |-> FALSE, inrange |-> TRUE]

\* No imshow_all call.
NoShow == [images |-> <<>>, titles |-> [given |-> FALSE, labels |-> <<>>],
           status |-> "none", panels |-> <<>>]

Init ==
    /\ shape \in (0..MaxDim) \X (0..MaxDim)
    /\ size \in Sizes
    /\ \E img \in Images(shape) : heap = (ImageBuf :> img) /\ image0 = img
    /\ gens = <<>>
    /\ out = <<>>
    /\ wr = NoWrite
    /\ cache = <<>>
    /\ req = NoReq
    /\ show = NoShow

----------------------------------------------------------------------------
(* Operations *)

\* An iter_kernel that checks size in the call and raises for a negative one.
CallRejectNegative(maxRuns) ==
    /\ Len(gens) < maxRuns
    /\ gens' = Append(gens, [pc |-> IF size < 0 THEN "raised" ELSE "start",
                             i |-> 0, j |-> 0])
    /\ out' = Append(out, <<>>)
    /\ UNCHANGED <<shape, size, heap, wr, image0, cache, req, show>>

\* An iter_kernel that checks the shape in the call and raises for an image
\* without pixels.
CallRejectEmpty(maxRuns) ==
    /\ Len(gens) < maxRuns
    /\ gens' = Append(gens, [pc |-> IF shape[1] = 0 \/ shape[2] = 0
                                      THEN "raised" ELSE "start",
                             i |-> 0, j |-> 0])
    /\ out' = Append(out, <<>>)
    /\ UNCHANGED <<shape, size, heap, wr, image0, cache, req, show>>

\* iter_kernel(image, size): a generator function, so the call runs none of
\* its body and returns a generator object, not yet started.  (A call that
\* raised would leave the frame "raised"; nothing in the code raises.)
Call(maxRuns) ==
    /\ Len(gens) < maxRuns
    /\ gens' = Append(gens, [pc |-> "start", i |-> 0, j |-> 0])
    /\ out' = Append(out, <<>>)
    /\ UNCHANGED <<shape, size, heap, wr, image0, cache, req, show>>

\* next(g): run the generator to its next yield (frame "yield": next
\* returned a triple), or to its end (frame "done": next raised
\* StopIteration, as does every later next).
Pull(g) ==
    LET fr == iter_pixels(Frame(g), shape)
    IN  /\ gens' = [gens EXCEPT ![g] = fr]
        /\ IF fr.pc = "yield"
             THEN LET step == KernelStep(heap, g, shape, size, fr.i, fr.j)
                  IN  /\ heap' = step.heap
                      /\ out' = [out EXCEPT ![g] = Append(@, step.triple)]
             ELSE UNCHANGED <<heap, out>>
        /\ UNCHANGED <<shape, size, wr, image0, cache, req, show>>

\* The caller overwrites cell (r, c) of the Mask it got as the k-th triple of
\* generator g.
WriteMask(g, k, r, c) ==
    /\ wr.kind = "none"
    /\ heap' = [heap EXCEPT ![out[g][k].mask][r][c] = Poke]
    /\ wr' = [kind |-> "mask", g |-> g, k |-> k, r |-> r, c |-> c, n |-> Len(out[g])]
    /\ UNCHANGED <<shape, size, gens, out, image0, cache, req, show>>

\* The caller overwrites cell (r, c) of the Window it got as the k-th triple
\* of generator g: a write through the view into the buffer it shows.
WriteWindow(g, k, r, c) ==
    LET w == out[g][k].window
    IN  /\ wr.kind = "none"
        /\ heap' = [heap EXCEPT ![w.buf][w.rows[1] + r][w.cols[1] + c] = Poke]
        /\ wr' = [kind |-> "window", g |-> g, k |-> k, r |-> r, c |-> c, n |-> Len(out[g])]
        /\ UNCHANGED <<shape, size, gens, out, image0, cache, req, show>>

Next ==
    \/ Call(MaxRuns)
    \/ \E g \in 1..Len(gens) : Pull(g)

Spec == Init /\ [][Next]_vars

\* One generator and a caller that, once, overwrites a cell of an array it
\* was handed.
NextCaller ==
    \/ Call(1)
    \/ \E g \in 1..Len(gens) : Pull(g)
    \/ \E g \in 1..Len(gens) : \E k \in 1..Len(out[g]) :
          \E r \in 0..(shape[1] - 1) : \E c \in 0..(shape[2] - 1) :
              WriteMask(g, k, r, c)
    \/ \E g \in 1..Len(gens) : \E k \in 1..Len(out[g]) :
          \E r \in 0..(ViewShape(out[g][k].window)[1] - 1) :
              \E c \in 0..(ViewShape(out[g][k].window)[2] - 1) :
                  WriteWindow(g, k, r, c)

SpecCaller == Init /\ [][NextCaller]_vars

----------------------------------------------------------------------------
(* mean_filter_demo and the mean_filter_step it returns *)

\* The default of iter_kernel's size, which mean_filter_demo's call uses.
DefaultSize == 1

\* mean_factor = 1.0 / 9.0, by its denominator.  An intensity is held as a
\* whole number of ninths, so that a product with mean_factor is exact.
MeanFactorDen == 9

\* The demo's image: the intensities 1, 2, 3, ... in row-major order.
DemoImage(shp) ==
    [r \in 0..(shp[1] - 1) |-> [c \in 0..(shp[2] - 1) |->
        MeanFactorDen * Ramp(shp)[r][c]]]

\* The name of the next array the demo allocates.
NewCopy(hp) == <<0, Cardinality({b \in DOMAIN hp : b[1] = 0})>>

\* The sum of the first n cells of a, an array of ncols columns, in row-major
\* order.
RECURSIVE SumCells(_, _, _)
SumCells(a, ncols, n) ==
    IF n = 0
      THEN 0
      ELSE a[(n - 1) \div ncols][(n - 1) % ncols] + SumCells(a, ncols, n - 1)

\* A reducer whose factor follows the window: 1 / (number of cells).
MeanOfWindowByArea(w, wshape) ==
    SumCells(w, wshape[2], wshape[1] * wshape[2]) \div (wshape[1] * wshape[2])

\* np.sum(mean_factor * subimage): every cell times mean_factor, then summed.
MeanOfWindow(w, wshape) ==
    SumCells([r \in 0..(wshape[1] - 1) |-> [c \in 0..(wshape[2] - 1) |->
                  w[r][c] \div MeanFactorDen]],
             wshape[2], wshape[1] * wshape[2])

\* color.label2rgb(mask, image, bg_label=0, ...): a new array, each cell the
\* image cell under the colour of its label (none for label 0).
Label2rgb(mask, image, shp) ==
    [r \in 0..(shp[1] - 1) |-> [c \in 0..(shp[2] - 1) |->
        <<mask[r][c], image[r][c]>>]]

\* A loop body that copies the image at the first step only and from then on
\* writes into the array of the newest cached frame (no filtered.copy()).
StepBodyAliasCache(st, i_step) ==
    IF i_step /= 0 /\ st.cache = <<>>
      THEN [st EXCEPT !.status = "IndexError"]
      ELSE
        LET src == IF i_step = 0
                     THEN st.heap[ImageBuf]
                     ELSE st.heap[st.cache[Len(st.cache)].filtered]
            fr == iter_pixels(st.fr, shape)
        IN  IF fr.pc /= "yield"
              THEN [st EXCEPT !.fr = fr, !.status = "StopIteration"]
              ELSE
                LET step == KernelStep(st.heap, 1, shape, size, fr.i, fr.j)
                    fb == IF st.cache = <<>>
                            THEN NewCopy(step.heap)
                            ELSE st.cache[Len(st.cache)].filtered
                    overlay == Stored(Label2rgb(step.heap[step.triple.mask],
                                                st.heap[ImageBuf], shape))
                    value == MeanOfWindow(ViewData(step.heap, step.triple.window),
                                          ViewShape(step.triple.window))
                    filtered == [src EXCEPT ![fr.i][fr.j] = value]
                IN  [heap |-> Stored([b \in DOMAIN step.heap \cup {fb} |->
                                  IF b = fb THEN filtered ELSE step.heap[b]]),
                     fr |-> fr,
                     out |-> Append(st.out, step.triple),
                     cache |-> Append(st.cache,
                                      [overlay |-> overlay, filtered |-> fb]),
                     status |-> "run"]

\* A loop body that starts every step from a copy of the image, not of the
\* newest cached frame.
StepBodyFromImage(st, i_step) ==
    IF i_step /= 0 /\ st.cache = <<>>
      THEN [st EXCEPT !.status = "IndexError"]
      ELSE
        LET src == st.heap[ImageBuf]
            fr == iter_pixels(st.fr, shape)
        IN  IF fr.pc /= "yield"
              THEN [st EXCEPT !.fr = fr, !.status = "StopIteration"]
              ELSE
                LET step == KernelStep(st.heap, 1, shape, size, fr.i, fr.j)
                    fb == NewCopy(step.heap)
                    overlay == Stored(Label2rgb(step.heap[step.triple.mask],
                                                st.heap[ImageBuf], shape))
                    value == MeanOfWindow(ViewData(step.heap, step.triple.window),
                                          ViewShape(step.triple.window))
                    filtered == [src EXCEPT ![fr.i][fr.j] = value]
                IN  [heap |-> Stored([b \in DOMAIN step.heap \cup {fb} |->
                                  IF b = fb THEN filtered ELSE step.heap[b]]),
                     fr |-> fr,
                     out |-> Append(st.out, step.triple),
                     cache |-> Append(st.cache,
                                      [overlay |-> overlay, filtered |-> fb]),
                     status |-> "run"]

\* A loop body that reduces the window of the filtered image so far (the
\* same slices of the copy), not of the image.
StepBodyFromFiltered(st, i_step) ==
    IF i_step /= 0 /\ st.cache = <<>>
      THEN [st EXCEPT !.status = "IndexError"]
      ELSE
        LET src == IF i_step = 0
                     THEN st.heap[ImageBuf]
                     ELSE st.heap[st.cache[Len(st.cache)].filtered]
            fr == iter_pixels(st.fr, shape)
        IN  IF fr.pc /= "yield"
              THEN [st EXCEPT !.fr = fr, !.status = "StopIteration"]
              ELSE
                LET step == KernelStep(st.heap, 1, shape, size, fr.i, fr.j)
                    fb == NewCopy(step.heap)
                    overlay == Stored(Label2rgb(step.heap[step.triple.mask],
                                                st.heap[ImageBuf], shape))
                    value == MeanOfWindow(ViewData((ImageBuf :> src),
                                                   step.triple.window),
                                          ViewShape(step.triple.window))
                    filtered == [src EXCEPT ![fr.i][fr.j] = value]
                IN  [heap |-> Stored([b \in DOMAIN step.heap \cup {fb} |->
                                  IF b = fb THEN filtered ELSE step.heap[b]]),
                     fr |-> fr,
                     out |-> Append(st.out, step.triple),
                     cache |-> Append(st.cache,
                                      [overlay |-> overlay, filtered |-> fb]),
                     status |-> "run"]

\* A loop body that at step 0 writes into the image itself (filtered = image,
\* no copy) and copies from then on.
StepBodyAliasImage(st, i_step) ==
    IF i_step /= 0 /\ st.cache = <<>>
      THEN [st EXCEPT !.status = "IndexError"]
      ELSE
        LET src == IF i_step = 0
                     THEN st.heap[ImageBuf]
                     ELSE st.heap[st.cache[Len(st.cache)].filtered]
            fr == iter_pixels(st.fr, shape)
        IN  IF fr.pc /= "yield"
              THEN [st EXCEPT !.fr = fr, !.status = "StopIteration"]
              ELSE
                LET step == KernelStep(st.heap, 1, shape, size, fr.i, fr.j)
                    fb == IF i_step = 0
                            THEN ImageBuf
                            ELSE NewCopy(step.heap)
                    overlay == Stored(Label2rgb(step.heap[step.triple.mask],
                                                st.heap[ImageBuf], shape))
                    value == MeanOfWindow(ViewData(step.heap, step.triple.window),
                                          ViewShape(step.triple.window))
                    filtered == [src EXCEPT ![fr.i][fr.j] = value]
                IN  [heap |-> Stored([b \in DOMAIN step.heap \cup {fb} |->
                                  IF b = fb THEN filtered ELSE step.heap[b]]),
                     fr |-> fr,
                     out |-> Append(st.out, step.triple),
                     cache |-> Append(st.cache,
                                      [overlay |-> overlay, filtered |-> fb]),
                     status |-> "run"]

\* One round of mean_filter_step's loop: copy the image (at step 0) or the
\* newest cached filtered image, pull the next triple, write the mean of its
\* window into the copy, append the frame.  "IndexError": image_cache[-1] of
\* an empty cache.  "StopIteration": next() of the exhausted generator.
StepBody(st, i_step) ==
    IF i_step /= 0 /\ st.cache = <<>>
      THEN [st EXCEPT !.status = "IndexError"]
      ELSE
        LET src == IF i_step = 0
                     THEN st.heap[ImageBuf]
                     ELSE st.heap[st.cache[Len(st.cache)].filtered]
            fr == iter_pixels(st.fr, shape)
        IN  IF fr.pc /= "yield"
              THEN [st EXCEPT !.fr = fr, !.status = "StopIteration"]
              ELSE
                LET step == KernelStep(st.heap, 1, shape, size, fr.i, fr.j)
                    fb == NewCopy(step.heap)
                    overlay == Stored(Label2rgb(step.heap[step.triple.mask],
                                                st.heap[ImageBuf], shape))
                    value == MeanOfWindow(ViewData(step.heap, step.triple.window),
                                          ViewShape(step.triple.window))
                    filtered == [src EXCEPT ![fr.i][fr.j] = value]
                IN  [heap |-> Stored([b \in DOMAIN step.heap \cup {fb} |->
                                  IF b = fb THEN filtered ELSE step.heap[b]]),
                     fr |-> fr,
                     out |-> Append(st.out, step.triple),
                     cache |-> Append(st.cache,
                                      [overlay |-> overlay, filtered |-> fb]),
                     status |-> "run"]

\* A mean_filter_step whose loop tests its condition after the body
\* (do ... while).
RECURSIVE StepLoopDoWhile(_, _)
StepLoopDoWhile(st, i_step) ==
    LET st1 == StepBody(st, i_step)
    IN  IF st1.status = "run" /\ i_step >= Len(st1.cache)
          THEN StepLoopDoWhile(st1, i_step)
          ELSE st1

\* while i_step >= len(image_cache): ..., left early by an exception.
RECURSIVE StepLoop(_, _)
StepLoop(st, i_step) ==
    IF st.status = "run" /\ i_step >= Len(st.cache)
      THEN StepLoop(StepBody(st, i_step), i_step)
      ELSE st

\* The step indices requested: every step of the image, one before the first
\* (Python's index of the last element) and one past the last.
Requests == (0 - 1)..(shape[1] * shape[2])

InitDemo ==
    /\ shape \in (0..MaxDim) \X (0..MaxDim)
    /\ size = DefaultSize
    /\ heap = (ImageBuf :> DemoImage(shape))
    /\ image0 = DemoImage(shape)
    /\ gens = <<>>
    /\ out = <<>>
    /\ wr = NoWrite
    /\ cache = <<>>
    /\ req = NoReq
    /\ show = NoShow

\* mean_filter_demo(image): creates the generator (no pull yet) and the
\* empty image_cache, and returns mean_filter_step.
mean_filter_demo == Call(1)

\* mean_filter_step(i_step): fill the cache up to i_step, then show frame
\* image_cache[i_step] (a negative index counts from the end).  An exception
\* ends the request where it is raised; what was cached before it stays.
mean_filter_step(i_step) ==
    /\ Len(gens) = 1
    /\ LET st == StepLoop([heap |-> heap, fr |-> Frame(1), out |-> out[1],
                           cache |-> cache, status |-> "run"], i_step)
           idx == IF i_step >= 0 THEN i_step ELSE Len(st.cache) + i_step
           status == IF st.status /= "run" THEN st.status
                     ELSE IF idx >= 0 /\ idx < Len(st.cache) THEN "ok"
                     ELSE "IndexError"
       IN  /\ heap' = st.heap
           /\ gens' = [gens EXCEPT ![1] = st.fr]
           /\ out' = [out EXCEPT ![1] = st.out]
           /\ cache' = st.cache
           /\ req' = [k |-> i_step,
                      status |-> status,
                      shown |-> IF status = "ok" THEN idx ELSE 0 - 1,
                      maxk |-> IF status = "ok" THEN PyMax(req.maxk, i_step)
                                                ELSE req.maxk,
                      failed |-> req.failed \/ status /= "ok",
                      inrange |-> /\ req.inrange
                                  /\ i_step >= 0
                                  /\ i_step < shape[1] * shape[2]]
    /\ UNCHANGED <<shape, size, wr, image0, show>>

NextDemo ==
    \/ mean_filter_demo
    \/ \E k \in Requests : mean_filter_step(k)

SpecDemo == InitDemo /\ [][NextDemo]_vars

----------------------------------------------------------------------------
(* mean_filter_interactive_demo *)

\* A slider whose maximum is the number of pixels (max=image.size).
SliderMaxSize == shape[1] * shape[2]

\* IntSlider(min=0, max=image.size-1, value=0): the largest step the slider
\* offers; the smallest is 0, and so is its first value.
SliderMax == shape[1] * shape[2] - 1

\* How a call mean_filter_step(i_step) ends, its loop having ended in st and
\* rq being the request record before it: the request record after it.
StepOutcome(st, rq, i_step) ==
    LET idx == IF i_step >= 0 THEN i_step ELSE Len(st.cache) + i_step
        status == IF st.status /= "run" THEN st.status
                  ELSE IF idx >= 0 /\ idx < Len(st.cache) THEN "ok"
                  ELSE "IndexError"
    IN  [k |-> i_step,
         status |-> status,
         shown |-> IF status = "ok" THEN idx ELSE 0 - 1,
         maxk |-> IF status = "ok" THEN PyMax(rq.maxk, i_step) ELSE rq.maxk,
         failed |-> rq.failed \/ status /= "ok",
         inrange |-> /\ rq.inrange
                     /\ i_step >= 0
                     /\ i_step < shape[1] * shape[2]]

\* interact()'s first call, mean_filter_step(0), on the demo just created:
\* its loop ends in st.
FirstCall(st) ==
    /\ gens' = <<st.fr>>
    /\ out' = <<st.out>>
    /\ heap' = st.heap
    /\ cache' = st.cache
    /\ req' = StepOutcome(st, req, 0)

\* mean_filter_interactive_demo(image): mean_filter_demo(image) creates the
\* generator and the empty cache; the slider is built; interact() shows it
\* and calls mean_filter_step at once with the slider's value, 0.  A slider
\* with max < min (an image without pixels) is refused by IntSlider, which
\* raises before interact is reached: no request is ever made.
mean_filter_interactive_demo ==
    /\ gens = <<>>
    /\ IF SliderMax < 0
         THEN /\ gens' = <<[pc |-> "start", i |-> 0, j |-> 0]>>
              /\ out' = <<<<>>>>
              /\ UNCHANGED <<heap, cache, req>>
         ELSE FirstCall(StepLoop([heap |-> heap,
                                  fr |-> [pc |-> "start", i |-> 0, j |-> 0],
                                  out |-> <<>>, cache |-> <<>>,
                                  status |-> "run"], 0))
    /\ UNCHANGED <<shape, size, wr, image0, show>>

\* The user moves the slider to step k: interact calls mean_filter_step(k).
SliderMove(k) ==
    /\ req.status /= "none"
    /\ mean_filter_step(k)

NextInteractive ==
    \/ mean_filter_interactive_demo
    \/ \E k \in 0..SliderMax : SliderMove(k)

SpecInteractive == InitDemo /\ [][NextInteractive]_vars

----------------------------------------------------------------------------
(* imshow_all *)

\* Largest number of images passed to imshow_all.
MaxImages == 3

MinOf(S) == CHOOSE m \in S : \A x \in S : m <= x

\* The full scale of a uint8 image.  A float intensity is held as a whole
\* number of 255ths, so that the conversion of a uint8 cell is exact.
Uint8Max == 255

\* img_as_float(img): a float image keeps its intensities, a uint8 image is
\* scaled so that 255 becomes 1.0.
ImgAsFloat(img) ==
    [r \in DOMAIN img.data |-> [c \in DOMAIN img.data[r] |->
        IF img.dtype = "uint8"
          THEN img.data[r][c]
          ELSE Uint8Max * img.data[r][c]]]

\* The cells of a 2-D array, as a set of values.
CellValues(a) == {a[r][c] : r \in DOMAIN a, c \in DOMAIN a[0]}

\* The images passed: float images (intensities 0 and 1; -1 and 2) and
\* uint8 images (0 and 200; 100 and 255), of one shape.
ShowImages ==
    { [dtype |-> "float", data |-> (0 :> (0 :> 0 @@ 1 :> 1))],
      [dtype |-> "float", data |-> (0 :> (0 :> 0 - 1 @@ 1 :> 2))],
      [dtype |-> "uint8", data |-> (0 :> (0 :> 0 @@ 1 :> 200))],
      [dtype |-> "uint8", data |-> (0 :> (0 :> 100 @@ 1 :> 255))] }

ShowLabels == {"a", "b"}

SeqsUpTo(S, n) == UNION {[1..m -> S] : m \in 0..n}

\* An axes nothing was drawn on.
Blank == [drawn |-> FALSE, image |-> <<>>, vmin |-> 0, vmax |-> 0, title |-> ""]

\* An imshow_all that leaves each panel to its own scale (the minimum and
\* maximum of its image).
ImshowAllPerImage(images, titles) ==
    LET imgs == [k \in 1..Len(images) |-> ImgAsFloat(images[k])]
        ttl == IF titles.given THEN titles.labels
                               ELSE [k \in 1..Len(imgs) |-> ""]
        ncols == Len(imgs)
    IN  IF ncols = 0 THEN [status |-> "ValueError", panels |-> <<>>]
        ELSE IF ncols = 1
          THEN [status |-> "AttributeError", panels |-> <<Blank>>]
          ELSE [status |-> "ok",
                panels |-> [k \in 1..ncols |->
                    IF k <= Len(ttl)
                      THEN [drawn |-> TRUE, image |-> imgs[k],
                            vmin |-> MinOf(CellValues(imgs[k])),
                            vmax |-> MaxOf(CellValues(imgs[k])),
                            title |-> ttl[k]]
                      ELSE Blank]]

\* imshow_all(*images, titles=None): what it raises, if anything, and the
\* row of axes it leaves.  min() of no images raises ValueError before any
\* figure exists.  plt.subplots(nrows=1, ncols=1) returns one Axes, not an
\* array, which has no ravel(): AttributeError, one empty axes.  zip stops at
\* the shortest of axes, images and titles.
ImshowAll(images, titles) ==
    LET imgs == [k \in 1..Len(images) |-> ImgAsFloat(images[k])]
        ttl == IF titles.given THEN titles.labels
                               ELSE [k \in 1..Len(imgs) |-> ""]
        ncols == Len(imgs)
    IN  IF ncols = 0 THEN [status |-> "ValueError", panels |-> <<>>]
        ELSE
          LET vmin == MinOf({MinOf(CellValues(imgs[k])) : k \in 1..ncols})
              vmax == MaxOf({MaxOf(CellValues(imgs[k])) : k \in 1..ncols})
          IN  IF ncols = 1
                THEN [status |-> "AttributeError", panels |-> <<Blank>>]
                ELSE [status |-> "ok",
                      panels |-> [k \in 1..ncols |->
                          IF k <= Len(ttl)
                            THEN [drawn |-> TRUE, image |-> imgs[k],
                                  vmin |-> vmin, vmax |-> vmax,
                                  title |-> ttl[k]]
                            ELSE Blank]]

InitShow ==
    /\ shape = <<0, 0>>
    /\ size = DefaultSize
    /\ heap = (ImageBuf :> Zeros(<<0, 0>>))
    /\ image0 = Zeros(<<0, 0>>)
    /\ gens = <<>>
    /\ out = <<>>
    /\ wr = NoWrite
    /\ cache = <<>>
    /\ req = NoReq
    /\ \E im \in SeqsUpTo(ShowImages, MaxImages) :
          \E t \in {[given |-> FALSE, labels |-> <<>>]}
                     \cup {[given |-> TRUE, labels |-> l] :
                               l \in SeqsUpTo(ShowLabels, Len(im))} :
              show = [images |-> im, titles |-> t, status |-> "input",
                      panels |-> <<>>]

\* The call of imshow_all on the arguments chosen.
imshow_all ==
    /\ show.status = "input"
    /\ LET res == ImshowAll(show.images, show.titles)
       IN  show' = [show EXCEPT !.status = res.status, !.panels = res.panels]
    /\ UNCHANGED <<shape, size, heap, gens, out, wr, image0, cache, req>>

NextShow == imshow_all

SpecShow == InitShow /\ [][NextShow]_vars

----------------------------------------------------------------------------
(* Properties of the iterator *)

Gens == 1..Len(gens)

Height == shape[1]

Width == shape[2]

ValidInput == Height >= 1 /\ Width >= 1 /\ size >= 0

\* Generator g is suspended at its yield: its last next() returned a triple.
AtYield(g) == gens[g].pc = "yield"

\* The triple generator g yielded last.
LastTriple(g) == out[g][Len(out[g])]

\* The clamped bounds of the neighbourhood of index i on an axis of length n.
Lo(i) == PyMax(i - size, 0)

Hi(i, n) == PyMin(i + size + 1, n)

\* C1: on a valid input, the k-th triple a generator yields (k from 0) is at
\* Position (k div width, k mod width), it never yields more than
\* height*width triples, and once exhausted it has yielded exactly that many.
C1_RowMajorOrder ==
    ValidInput =>
        \A g \in Gens :
            /\ \A k \in 1..Len(out[g]) :
                   out[g][k].pos = <<(k - 1) \div Width, (k - 1) % Width>>
            /\ Len(out[g]) <= Height * Width
            /\ gens[g].pc = "done" => Len(out[g]) = Height * Width

\* A generator ran to exhaustion over an image that is not square.
C1_Witness ==
    /\ ValidInput /\ Height = 2 /\ Width = 3
    /\ \E g \in Gens : gens[g].pc = "done" /\ Len(out[g]) = 6

\* The mask by direct clamped-range assignment: 2 at (i, j), 1 on the rest of
\* the clamped square around it, 0 elsewhere.
ClampedMask(i, j) ==
    [r \in 0..(Height - 1) |-> [c \in 0..(Width - 1) |->
        IF r = i /\ c = j THEN 2
        ELSE IF /\ Lo(i) <= r /\ r < Hi(i, Height)
                /\ Lo(j) <= c /\ c < Hi(j, Width)
               THEN 1
               ELSE 0]]

\* C2: for size >= 0, the mask of every yielded triple (dilation of the marked
\* cell, reflecting boundary included) equals the direct clamped-range
\* assignment around its Position.
C2_MaskIsClampedSquare ==
    size >= 0 =>
        \A g \in Gens :
            AtYield(g) =>
                heap[LastTriple(g).mask]
                    = ClampedMask(LastTriple(g).pos[1], LastTriple(g).pos[2])

\* A corner Position of a 3x3 image with size 2: the square reaches past the
\* image on two sides and up to its far corner.
C2_Witness ==
    /\ size = 2 /\ shape = <<3, 3>>
    /\ \E g \in Gens :
          /\ AtYield(g) /\ LastTriple(g).pos = <<2, 0>>
          /\ heap[LastTriple(g).mask][0][2] = 1

\* C3: for size >= 0, the Window of every yielded triple is the image
\* restricted to the clamped row and column ranges around its Position,
\* element for element, with the shape those ranges give.
C3_WindowIsClampedSlice ==
    size >= 0 =>
        \A g \in Gens :
            AtYield(g) =>
                LET i == LastTriple(g).pos[1]
                    j == LastTriple(g).pos[2]
                IN  /\ ViewShape(LastTriple(g).window)
                         = <<Hi(i, Height) - Lo(i), Hi(j, Width) - Lo(j)>>
                    /\ ViewData(heap, LastTriple(g).window)
                         = [r \in 0..(Hi(i, Height) - Lo(i) - 1) |->
                              [c \in 0..(Hi(j, Width) - Lo(j) - 1) |->
                                  image0[Lo(i) + r][Lo(j) + c]]]

\* An edge Position of a 3x3 image, size 1: a clamped 3x2 window.
C3_Witness ==
    /\ size = 1 /\ shape = <<3, 3>>
    /\ \E g \in Gens :
          /\ AtYield(g) /\ LastTriple(g).pos = <<1, 2>>
          /\ ViewShape(LastTriple(g).window) = <<3, 2>>
          /\ ViewData(heap, LastTriple(g).window)[0][0] = 2

C6_ImageUnchanged == heap[ImageBuf] = image0

\* A generator ran over all of a 3x3 image.
C6_Witness ==
    /\ shape = <<3, 3>> /\ size = 1
    /\ \E g \in Gens : gens[g].pc = "done" /\ Len(out[g]) = 9

\* C9: an exhausted generator stays exhausted: whatever is pulled, it yields
\* nothing more, and it has yielded height*width triples; only a newly called
\* generator, which starts with nothing yielded, yields again, its first
\* triple at Position (0, 0).
C9_NotRestartable ==
    [][ /\ \A g \in Gens :
              gens[g].pc = "done" =>
                  /\ gens'[g].pc = "done"
                  /\ out'[g] = out[g]
                  /\ Len(out[g]) = Height * Width
        /\ \A g \in 1..Len(gens') :
              /\ g \notin Gens => (gens'[g].pc = "start" /\ out'[g] = <<>>)
              /\ Len(out'[g]) >= 1 => out'[g][1].pos = <<0, 0>>
      ]_vars

\* The first generator is exhausted, and a second one, called on the same
\* image, has yielded.
C9_Witness ==
    /\ Len(gens) = 2 /\ shape = <<2, 2>>
    /\ gens[1].pc = "done" /\ Len(out[1]) = 4
    /\ Len(out[2]) = 2

\* What a triple holds: its Position, the cells of its Mask, the cells of its
\* Window.
TripleValue(t) == <<t.pos, heap[t.mask], ViewData(heap, t.window)>>

\* C10: two generators over the same image and size yield the same triples,
\* element for element, however their pulls interleave.
C10_Deterministic ==
    \A g1 \in Gens : \A g2 \in Gens :
        \A k \in 1..PyMin(Len(out[g1]), Len(out[g2])) :
            TripleValue(out[g1][k]) = TripleValue(out[g2][k])

\* Two generators over a 3x3 image, one exhausted and one part-way.
C10_Witness ==
    /\ Len(gens) = 2 /\ shape = <<3, 3>> /\ size = 1
    /\ Len(out[1]) = 4 /\ gens[2].pc = "done" /\ Len(out[2]) = 9

----------------------------------------------------------------------------
(* Properties of the yielded arrays under a caller's write *)

\* The (generator, step) pairs of the triples yielded so far.
Steps == {s \in Gens \X (1..(Height * Width)) : s[2] <= Len(out[s[1]])}

TripleAt(s) == out[s[1]][s[2]]

\* C7: every Mask is an array of its own: no two triples share one and none
\* is the image.  When the caller overwrites a cell of the Mask of one step,
\* that cell of that Mask changes and nothing else: no other Mask yielded so
\* far, and not the image.  And every Mask yielded, before or after such a
\* write, is a new array holding the mask the iterator computes for its
\* Position, its yield leaving every older array as it was.
C7_MasksIndependent ==
    /\ [](/\ \A s \in Steps : TripleAt(s).mask /= ImageBuf
          /\ \A s \in Steps : \A t \in Steps :
                s /= t => TripleAt(s).mask /= TripleAt(t).mask)
    /\ [][ /\ (wr.kind = "none" /\ wr'.kind = "mask") =>
                 LET b == out[wr'.g][wr'.k].mask
                 IN  /\ heap'[b] = [heap[b] EXCEPT ![wr'.r][wr'.c] = Poke]
                     /\ \A x \in DOMAIN heap \ {b} : heap'[x] = heap[x]
                     /\ DOMAIN heap' = DOMAIN heap
           /\ \A g \in Gens :
                 Len(out'[g]) > Len(out[g]) =>
                     LET t == out'[g][Len(out'[g])]
                     IN  /\ t.mask \notin DOMAIN heap
                         /\ heap'[t.mask] = KernelMask(shape, size, t.pos[1], t.pos[2])
                         /\ \A x \in DOMAIN heap : heap'[x] = heap[x]
         ]_vars

\* The Mask of the second step was overwritten when two triples had been
\* yielded, and two more were yielded afterwards.
C7_Witness ==
    /\ wr.kind = "mask" /\ wr.k = 2 /\ wr.n = 2
    /\ shape = <<2, 3>> /\ size = 1
    /\ Len(out[wr.g]) = 4
    /\ heap[out[wr.g][2].mask][wr.r][wr.c] = Poke

\* The cell of its buffer a write through the window of step (wr.g, wr.k) at
\* (wr.r, wr.c) lands on.
Target == <<TripleAt(<<wr.g, wr.k>>).window.rows[1] + wr.r,
            TripleAt(<<wr.g, wr.k>>).window.cols[1] + wr.c>>

\* Whether view v shows cell p of its buffer.
Covers(v, p) ==
    /\ v.rows[1] <= p[1] /\ p[1] < v.rows[2]
    /\ v.cols[1] <= p[2] /\ p[2] < v.cols[2]

\* C8 as claimed: the Window of a step is an allocation of its own: after the
\* caller has written to a yielded Window the image is as it was, and so is
\* the Window of every other step.
C8_WindowWriteIsPrivate ==
    wr.kind = "window" =>
        /\ heap[ImageBuf] = image0
        /\ \A s \in Steps :
              s /= <<wr.g, wr.k>> =>
                  ViewData(heap, TripleAt(s).window)
                      = ViewData((ImageBuf :> image0), TripleAt(s).window)

\* C8 as the code has it: a step allocates its Mask but not its Window, which
\* is a view of the image's own memory.  A caller writing a cell of a yielded
\* Window writes that cell of the image (and no other), every Window that
\* covers the cell, yielded before or after the write, shows the written
\* value, and no Mask changes.
C8_WindowIsViewOfImage ==
    /\ [](/\ \A s \in Steps : TripleAt(s).window.buf = ImageBuf
          /\ wr.kind = "window" =>
                /\ heap[ImageBuf] = [image0 EXCEPT ![Target[1]][Target[2]] = Poke]
                /\ \A s \in Steps :
                      LET v == TripleAt(s).window
                      IN  Covers(v, Target) =>
                              ViewData(heap, v)[Target[1] - v.rows[1]]
                                               [Target[2] - v.cols[1]] = Poke)
    /\ [][ (wr.kind = "none" /\ wr'.kind = "window") =>
               /\ DOMAIN heap' = DOMAIN heap
               /\ \A x \in DOMAIN heap \ {ImageBuf} : heap'[x] = heap[x]
         ]_vars

\* The caller wrote to the Window of the second step of a 2x3 image; the
\* Windows of the first step (yielded before) and of the third (yielded after
\* the write) cover the written cell and are not the written Window.
C8_Witness ==
    /\ wr.kind = "window" /\ wr.k = 2 /\ wr.n = 2
    /\ shape = <<2, 3>> /\ size = 1
    /\ Len(out[wr.g]) = 3
    /\ Target = <<1, 1>>
    /\ Covers(out[wr.g][1].window, Target)
    /\ Covers(out[wr.g][3].window, Target)
    /\ out[wr.g][1].window /= out[wr.g][2].window
    /\ out[wr.g][3].window /= out[wr.g][2].window
    /\ heap[ImageBuf][1][1] = Poke

----------------------------------------------------------------------------
(* The boundary case size = 0 *)

\* The cells of array a that hold value v.
CellsWith(a, v) ==
    {p \in (0..(Height - 1)) \X (0..(Width - 1)) : a[p[1]][p[2]] = v}

\* C11: with size = 0 every yielded triple has a Window of shape (1, 1) whose
\* one element is the image cell at its Position, and a Mask whose only cell
\* equal to 2 is the Position and that has no cell equal to 1.
C11_SizeZero ==
    size = 0 =>
        \A g \in Gens :
            AtYield(g) =>
                LET t == LastTriple(g)
                IN  /\ ViewShape(t.window) = <<1, 1>>
                    /\ ViewData(heap, t.window)[0][0] = image0[t.pos[1]][t.pos[2]]
                    /\ CellsWith(heap[t.mask], 2) = {t.pos}
                    /\ CellsWith(heap[t.mask], 1) = {}

\* With size = 0, the centre of a 3x3 image was yielded.
C11_Witness ==
    /\ size = 0 /\ shape = <<3, 3>>
    /\ \E g \in Gens : AtYield(g) /\ LastTriple(g).pos = <<1, 1>>

----------------------------------------------------------------------------
(* Properties of the step-driven demo *)

\* The Position of step k (from 0) in row-major order.
PosOf(k) == <<k \div Width, k % Width>>

\* The filtered image of the frame cached for step k (from 0).
FilteredAt(k) == heap[cache[k + 1].filtered]

\* C12: the cache maps a step index to the frame of that step (the overlay
\* cached for step k marks the k-th Position) and never holds more than
\* height*width frames; no request shortens it or changes a frame it holds,
\* the overlay or the cells of the filtered image; and it grows only on
\* demand: on a request for a step it does not hold, and not past that step.
C12_CacheGrowsOnly ==
    /\ [](/\ Len(cache) <= Height * Width
          /\ \A k \in 0..(Len(cache) - 1) :
                cache[k + 1].overlay[PosOf(k)[1]][PosOf(k)[2]][1] = 2)
    /\ [][ /\ Len(cache') >= Len(cache)
           /\ \A k \in 0..(Len(cache) - 1) :
                 /\ cache'[k + 1] = cache[k + 1]
                 /\ heap'[cache[k + 1].filtered] = FilteredAt(k)
           /\ Len(cache') > Len(cache) =>
                 /\ req'.k >= Len(cache)
                 /\ Len(cache') <= req'.k + 1
         ]_vars

\* All four frames of a 2x2 image are cached and an earlier step was shown
\* again.
C12_Witness ==
    /\ shape = <<2, 2>> /\ Len(cache) = 4
    /\ req.status = "ok" /\ req.k = 1 /\ req.maxk = 3

\* C13: every request for a step k in 0 .. height*width-1, none out of that
\* range having been made before it, completes without error and shows the
\* frame of the k-th row-major Position, whatever was requested before:
\* also a first request with k > 0.
C13_AnyOrderCompletes ==
    (req.status /= "none" /\ req.inrange) =>
        /\ req.status = "ok"
        /\ req.shown = req.k
        /\ cache[req.k + 1].overlay[PosOf(req.k)[1]][PosOf(req.k)[2]][1] = 2

\* C14: a request for a step past the last one is rejected without pulling
\* the generator beyond its last Position: on an image with pixels, the
\* generator is never resumed to its end (frame "done": a next() that found
\* no Position left), and no request ends in the generator's StopIteration.
C14_OutOfRangeRejectedWithoutPull ==
    (Height >= 1 /\ Width >= 1) =>
        /\ \A g \in Gens : gens[g].pc /= "done"
        /\ req.status /= "StopIteration"

\* The cell of array a at the n-th Position.
CellAt(a, n) == a[PosOf(n)[1]][PosOf(n)[2]]

\* C15: the filtered image cached for step k holds the original image's value
\* at every Position after the k-th, and differs from the filtered image
\* cached for step k-1 (from the original image when k = 0) at most in the
\* cell at the k-th Position.
C15_OneCellPerStep ==
    \A k \in 0..(Len(cache) - 1) :
        LET prev == IF k = 0 THEN image0 ELSE FilteredAt(k - 1)
        IN  /\ \A n \in (k + 1)..(Height * Width - 1) :
                  CellAt(FilteredAt(k), n) = CellAt(image0, n)
            /\ \A n \in 0..(Height * Width - 1) :
                  n /= k => CellAt(FilteredAt(k), n) = CellAt(prev, n)

\* All steps of a 2x3 image are cached; the last two frames differ in the
\* last cell, and the last frame differs from the image in the first.
C15_Witness ==
    /\ shape = <<2, 3>> /\ Len(cache) = 6
    /\ CellAt(FilteredAt(5), 5) /= CellAt(FilteredAt(4), 5)
    /\ CellAt(FilteredAt(5), 0) /= CellAt(image0, 0)

----------------------------------------------------------------------------
(* Properties of imshow_all *)

\* Every cell value of every image passed, after conversion to float.
AllShownValues ==
    UNION {CellValues(ImgAsFloat(show.images[k])) : k \in 1..Len(show.images)}

\* C16: called with two or more images, imshow_all raises nothing and draws
\* every panel that shows an image with one scale: vmin the minimum and vmax
\* the maximum over all cells of all the float-converted images.
C16_SharedScale ==
    (Len(show.images) >= 2 /\ show.status /= "input") =>
        /\ show.status = "ok"
        /\ \A k \in 1..Len(show.panels) :
              show.panels[k].drawn =>
                  /\ show.panels[k].vmin = MinOf(AllShownValues)
                  /\ show.panels[k].vmax = MaxOf(AllShownValues)

\* Three images were drawn, a uint8 image first whose own minimum and maximum
\* (0 and 200/255) are not the shared ones (-1.0 and 2.0, from a float image).
C16_Witness ==
    /\ show.status = "ok" /\ Len(show.images) = 3
    /\ show.images[1].dtype = "uint8"
    /\ show.panels[1].drawn /\ show.panels[3].drawn
    /\ show.panels[1].vmin = 0 - Uint8Max
    /\ show.panels[1].vmax = 2 * Uint8Max
    /\ MinOf(CellValues(show.panels[1].image)) = 0
    /\ MaxOf(CellValues(show.panels[1].image)) = 200

\* C17: imshow_all draws every image passed to it, panel k showing the k-th
\* image, with an empty title when titles is omitted and with titles[k] when
\* titles are supplied (one for each image).
C17_EveryImageDrawn ==
    (/\ show.status /= "input"
     /\ Len(show.images) >= 1
     /\ show.titles.given => Len(show.titles.labels) = Len(show.images)) =>
        /\ show.status = "ok"
        /\ Len(show.panels) = Len(show.images)
        /\ \A k \in 1..Len(show.images) :
              /\ show.panels[k].drawn
              /\ show.panels[k].image = ImgAsFloat(show.images[k])
              /\ show.panels[k].title = IF show.titles.given
                                          THEN show.titles.labels[k]
                                          ELSE ""

----------------------------------------------------------------------------
(* Properties of the demo's reducer *)

\* The rows (n = Height) or columns (n = Width) within 1 of index i.
Near(i, n) == {x \in 0..(n - 1) : i - 1 <= x /\ x <= i + 1}

\* The sum of the cells of array a over the set S of Positions.
RECURSIVE SumAt(_, _)
SumAt(a, S) ==
    IF S = {}
      THEN 0
      ELSE LET p == CHOOSE q \in S : TRUE
           IN  a[p[1]][p[2]] + SumAt(a, S \ {p})

\* The cells of the image within 1 of Position p, clamped to the image.
Window3x3(p) == Near(p[1], Height) \X Near(p[2], Width)

\* C18: the value written at the k-th Position is the sum of the image's
\* cells in the clamped 3x3 window around it, divided by 9: nine times the
\* value is that sum, whether the window has 9, 6 or 4 cells (or fewer, on
\* an image narrower than 3).
C18_FixedNinth ==
    \A k \in 0..(Len(cache) - 1) :
        MeanFactorDen * CellAt(FilteredAt(k), k)
            = SumAt(image0, Window3x3(PosOf(k)))

\* A 3x3 image with steps up to the centre cached: windows of 4 cells (the
\* corner), 6 (the edge) and 9 (the centre); the corner's value is not the
\* mean of its 4 cells.
C18_Witness ==
    /\ shape = <<3, 3>> /\ Len(cache) >= 5
    /\ Cardinality(Window3x3(PosOf(0))) = 4
    /\ Cardinality(Window3x3(PosOf(1))) = 6
    /\ Cardinality(Window3x3(PosOf(4))) = 9
    /\ 4 * CellAt(FilteredAt(0), 0) /= SumAt(image0, Window3x3(PosOf(0)))

\* The image extended by zeros beyond its borders.
Padded(r, c) ==
    IF r >= 0 /\ r < Height /\ c >= 0 /\ c < Width THEN image0[r][c] ELSE 0

\* The sum of the nine cells of the zero-extended image around Position p.
PaddedSum(p) ==
    LET d(n) == <<(n \div 3) - 1, (n % 3) - 1>>
        cells == [n \in 0..8 |-> [x \in {0} |->
                     Padded(p[1] + d(n)[1], p[2] + d(n)[2])]]
    IN  SumCells(cells, 1, 9)

\* C19: every step reduces a Window of the original image, which no step has
\* changed, never of the filtered image so far; so once the last step is
\* cached, its filtered image is at every Position the 3x3 mean of the
\* original image, the neighbours beyond the border counted as 0.
C19_MeanOfOriginal ==
    /\ heap[ImageBuf] = image0
    /\ \A g \in Gens : \A k \in 1..Len(out[g]) : out[g][k].window.buf = ImageBuf
    /\ (Len(cache) = Height * Width /\ Len(cache) >= 1) =>
          \A n \in 0..(Height * Width - 1) :
              MeanFactorDen * CellAt(FilteredAt(Height * Width - 1), n)
                  = PaddedSum(PosOf(n))

\* All nine steps of a 3x3 image are cached; the window of the centre step
\* covers cells that earlier steps had written in the filtered image.
C19_Witness ==
    /\ shape = <<3, 3>> /\ Len(cache) = 9
    /\ CellAt(FilteredAt(3), 0) /= CellAt(image0, 0)
    /\ PosOf(0) \in Window3x3(PosOf(4))

\* C20: while every request so far has succeeded, the number of triples
\* pulled from the generator equals the length of the cache, which is the
\* largest step index requested so far plus one; and a request for a step
\* the cache already holds pulls nothing and caches nothing: generator,
\* triples, cache and arrays are as before it.
C20_PullsMatchCache ==
    /\ []((req.status /= "none" /\ ~req.failed) =>
             /\ Len(out[1]) = Len(cache)
             /\ Len(cache) = req.maxk + 1)
    /\ [][ (Len(gens) = 1 /\ req'.k >= 0 /\ req'.k < Len(cache)) =>
               /\ req'.status = "ok"
               /\ out' = out /\ gens' = gens
               /\ cache' = cache /\ heap' = heap
         ]_vars

\* On a 2x2 image the steps up to step 2 were requested, every request with
\* success, and then step 0 again.
C20_Witness ==
    /\ shape = <<2, 2>> /\ ~req.failed
    /\ req.status = "ok" /\ req.k = 0 /\ req.maxk = 2
    /\ Len(cache) = 3 /\ Len(out[1]) = 3

----------------------------------------------------------------------------
(* Properties of the demo's arrays *)

\* The arrays the yielded triples hold as Masks.
MaskBufs == UNION {{out[g][k].mask : k \in 1..Len(out[g])} : g \in Gens}

\* C21: whatever steps are requested, the caller's image keeps every value it
\* had; the filtered images of different cache entries are different arrays,
\* none of them the image or a Mask; and a request that caches new steps
\* leaves the image and the filtered image of every step cached before it
\* cell for cell as they were.
C21_WritesGoToCopies ==
    /\ [](/\ heap[ImageBuf] = image0
          /\ \A k \in 1..Len(cache) :
                /\ cache[k].filtered /= ImageBuf
                /\ cache[k].filtered \notin MaskBufs
                /\ \A n \in 1..Len(cache) :
                      n /= k => cache[n].filtered /= cache[k].filtered)
    /\ [][ Len(cache') > Len(cache) =>
               /\ heap'[ImageBuf] = heap[ImageBuf]
               /\ \A k \in 1..Len(cache) :
                     heap'[cache[k].filtered] = heap[cache[k].filtered]
         ]_vars

\* Three steps of a 2x2 image are cached: each filtered image holds the value
\* written at its own step, and the one before it still holds the image's.
C21_Witness ==
    /\ shape = <<2, 2>> /\ Len(cache) = 3
    /\ CellAt(FilteredAt(0), 0) /= CellAt(image0, 0)
    /\ CellAt(FilteredAt(2), 2) /= CellAt(image0, 2)
    /\ CellAt(FilteredAt(1), 2) = CellAt(image0, 2)

----------------------------------------------------------------------------
(* Properties of the slider-driven demo *)

\* C22: driven through mean_filter_interactive_demo, the first request is
\* for step 0 and every request is for a step in 0 .. height*width-1; so
\* every request succeeds: none reads an empty cache (IndexError), none
\* pulls the generator when no Position is left (StopIteration), and the
\* generator is never run to its end.
C22_SliderKeepsRequestsInRange ==
    /\ [](/\ req.inrange
          /\ req.status \in {"none", "ok"}
          /\ ~req.failed
          /\ \A g \in Gens : gens[g].pc /= "done")
    /\ [][ (req.status = "none" /\ req'.status /= "none") => req'.k = 0 ]_vars

\* On a 2x3 image the slider was moved to the last step and then back to
\* step 1.
C22_Witness ==
    /\ shape = <<2, 3>> /\ Len(cache) = 6
    /\ req.status = "ok" /\ req.k = 1 /\ req.maxk = 5
    /\ gens[1].pc = "yield"

----------------------------------------------------------------------------
(* Properties of the Window's extent *)

\* Whether Position p is at least size cells away from all four borders.
Interior(p) ==
    /\ size <= p[1] /\ p[1] <= Height - 1 - size
    /\ size <= p[2] /\ p[2] <= Width - 1 - size

\* C23: for size >= 0 every yielded Window has at least one row and one
\* column and at most 2*size+1 of each; it has (2*size+1) x (2*size+1) cells
\* exactly when its Position is at least size cells from all four borders,
\* and fewer otherwise.
C23_WindowExtent ==
    size >= 0 =>
        \A g \in Gens :
            AtYield(g) =>
                LET sh == ViewShape(LastTriple(g).window)
                    full == 2 * size + 1
                IN  /\ sh[1] >= 1 /\ sh[2] >= 1
                    /\ sh[1] <= full /\ sh[2] <= full
                    /\ (sh[1] * sh[2] = full * full) <=> Interior(LastTriple(g).pos)
                    /\ ~Interior(LastTriple(g).pos) => sh[1] * sh[2] < full * full

\* With size 1, a 3x3 image has one interior Position, whose Window is full,
\* and it was yielded after the border Positions before it.
C23_Witness ==
    /\ size = 1 /\ shape = <<3, 3>>
    /\ \E g \in Gens :
          /\ AtYield(g) /\ LastTriple(g).pos = <<1, 1>>
          /\ Interior(LastTriple(g).pos)
          /\ ViewShape(LastTriple(g).window) = <<3, 3>>
          /\ ViewShape(out[g][1].window) = <<2, 2>>

----------------------------------------------------------------------------
(* Properties relating Mask and Window *)

\* The cells of array a that are not 0.
NonZero(a) ==
    {p \in (0..(Height - 1)) \X (0..(Width - 1)) : a[p[1]][p[2]] /= 0}

\* The cells of its buffer that view v shows.
Rect(v) == (v.rows[1]..(v.rows[2] - 1)) \X (v.cols[1]..(v.cols[2] - 1))

----------------------------------------------------------------------------
(* The boundary case of a neighbourhood as large as the image *)

\* A Mask of 1 everywhere but 2 at Position p.
OnesWithCentre(p) ==
    [r \in 0..(Height - 1) |-> [c \in 0..(Width - 1) |->
        IF <<r, c>> = p THEN 2 ELSE 1]]

\* C25: when size >= max(height, width) - 1, also when size exceeds the
\* image, every yielded Window is the whole image and every Mask is 1
\* everywhere except 2 at the Position; and so they are for the centre (1, 1)
\* of a 3x3 image with size = 1.
C25_WholeImageWindow ==
    \A g \in Gens :
        (/\ AtYield(g)
         /\ \/ size >= MaxOf({Height, Width}) - 1
            \/ shape = <<3, 3>> /\ size = 1 /\ LastTriple(g).pos = <<1, 1>>) =>
            /\ ViewShape(LastTriple(g).window) = shape
            /\ ViewData(heap, LastTriple(g).window) = image0
            /\ heap[LastTriple(g).mask] = OnesWithCentre(LastTriple(g).pos)

\* A 2x2 image with size 2, larger than the image: its last Position was
\* yielded.
C25_Witness ==
    /\ size = 2 /\ shape = <<2, 2>>
    /\ \E g \in Gens :
          /\ AtYield(g) /\ LastTriple(g).pos = <<1, 1>>
          /\ heap[LastTriple(g).mask][0][0] = 1
          /\ ViewData(heap, LastTriple(g).window)[0][0] = image0[0][0]

====
